---------------------------- MODULE Spec2Model ----------------------------
(***************************************************************************)
(* A model of rusty-jvm: the operand stack (src/src/vm.rs), the            *)
(* instruction handlers and the dispatch loop (src/src/env.rs), the        *)
(* bytecode decoder (src/src/interpret.rs) and the class-file loader       *)
(* (src/src/loader.rs).                                                    *)
(***************************************************************************)
EXTENDS Integers, Sequences, FiniteSets, TLC

(***************************************************************************)
(* Bounds of the model.                                                    *)
(***************************************************************************)
\* Direct calls of the VMEnv / VM API in one behaviour of Spec.
MaxCalls == 5
\* Direct calls made before execute in one behaviour of SpecExec.
MaxPrelude == 1
\* Length of the code sequence handed to execute.
MaxCodeLen == 2

(***************************************************************************)
(* i32 (VMValue::Int).  TLC's integers are 32-bit as well, so sums are     *)
(* never formed before they are known to fit.                              *)
(***************************************************************************)
MaxI32 == 2147483647
MinI32 == -2147483647 - 1

VARIABLES
    vm,        \* VM: interop_stack, interop_stack_ptr, interop_stack_size
    lifo,      \* reference stack: a plain sequence, top at the end
    last,      \* the last call: its name, the VM before it, what it returned
    panic,     \* "none", or the panic that unwound the last call
    nCalls,    \* direct API calls made so far
    status,    \* execute: "Ready", "Running", "Completed", "Faulted"
    code,      \* the code sequence of the current execute call
    pc,        \* 1-based position of the for loop of execute in code
    trace,     \* indices of code handed to decode so far, in order
    pre,       \* the VM as it was when the current instruction began
    result,    \* what execute returned: none, Ok or Err(UnimplementedOpcode(b))
    overflow_checks  \* the build: TRUE when integer overflow panics (debug)

vmvars == <<vm, lifo, last, panic, nCalls>>
exvars == <<status, code, pc, trace, pre, result>>

(***************************************************************************)
(* VMValue, src/src/vm.rs:4-11.  Every value is a record with the same     *)
(* fields; v is 0 for Null.                                                *)
(***************************************************************************)
VInt(n) == [tag |-> "Int", v |-> n]
VLong(n) == [tag |-> "Long", v |-> n]
VNull == [tag |-> "Null", v |-> 0]
\* "no value": what a call that returns nothing, or that unwound, yields.
NoValue == [tag |-> "None", v |-> 0]

\* VM::new, src/src/vm.rs:42-48
VMNew ==
    [interop_stack |-> <<>>, interop_stack_ptr |-> 0, interop_stack_size |-> 0]

\* The outcome of a call on the VM: the VM after it, the value returned and
\* the panic that ended it ("none" when it returned).
Outcome(v, r, p) == [vm |-> v, ret |-> r, panic |-> p]

\* Vec indexing self.interop_stack[i] = val (0-based i), src/src/vm.rs:56.
\* An index at or beyond the length is the Vec's own bounds panic.
StoreAt(v, i, val) ==
    IF i < Len(v.interop_stack)
    THEN Outcome([v EXCEPT !.interop_stack[i + 1] = val,
                           !.interop_stack_ptr = i + 1], NoValue, "none")
    ELSE Outcome(v, NoValue, "IndexOutOfBounds")

\* A push that forgets to grow the storage at the frontier.
push_noGrow(v, val) ==
    IF v.interop_stack_ptr = v.interop_stack_size
    THEN Outcome([v EXCEPT !.interop_stack_ptr = @ + 1], NoValue, "none")
    ELSE StoreAt(v, v.interop_stack_ptr, val)

\* A push that writes one slot too low when it overwrites a stale slot.
push_offByOne(v, val) ==
    IF v.interop_stack_ptr = v.interop_stack_size
    THEN Outcome([interop_stack |-> Append(v.interop_stack, val),
                  interop_stack_ptr |-> v.interop_stack_ptr + 1,
                  interop_stack_size |-> v.interop_stack_size + 1],
                 NoValue, "none")
    ELSE IF v.interop_stack_ptr = 0
         THEN StoreAt(v, 0, val)
         ELSE Outcome([v EXCEPT !.interop_stack[v.interop_stack_ptr] = val,
                                !.interop_stack_ptr = @ + 1], NoValue, "none")

\* VM::push, src/src/vm.rs:50-61
push(v, val) ==
    IF v.interop_stack_ptr = v.interop_stack_size
    THEN Outcome([interop_stack |-> Append(v.interop_stack, val),
                  interop_stack_ptr |-> v.interop_stack_ptr + 1,
                  interop_stack_size |-> v.interop_stack_size + 1],
                 NoValue, "none")
    ELSE IF v.interop_stack_ptr < v.interop_stack_size
         THEN StoreAt(v, v.interop_stack_ptr, val)
         ELSE Outcome(v, NoValue, "StackPtrViolation")

\* A pop that answers Null on an empty stack instead of faulting.
pop_default(v) ==
    IF v.interop_stack_ptr = 0
    THEN Outcome(v, VNull, "none")
    ELSE Outcome([v EXCEPT !.interop_stack_ptr = @ - 1],
                 v.interop_stack[v.interop_stack_ptr], "none")

\* VM::pop, src/src/vm.rs:62-68.  The panic at index 0 is the stack
\* underflow fault.
pop(v) ==
    IF v.interop_stack_ptr = 0
    THEN Outcome(v, NoValue, "StackUnderflow")
    ELSE IF v.interop_stack_ptr - 1 < Len(v.interop_stack)
         THEN Outcome([v EXCEPT !.interop_stack_ptr = @ - 1],
                      v.interop_stack[v.interop_stack_ptr], "none")
         ELSE Outcome([v EXCEPT !.interop_stack_ptr = @ - 1],
                      NoValue, "IndexOutOfBounds")

\* VMValue::int, src/src/vm.rs:27-32: TRUE when the match arm is Self::Int.
IsInt(val) == val.tag = "Int"

\* i32 addition a + b overflows.
Overflows(a, b) ==
    \/ (a > 0 /\ b > MaxI32 - a)
    \/ (a < 0 /\ b < MinI32 - a)

\* The two's complement result of an overflowing a + b.
WrapAdd(a, b) ==
    IF a > 0
    THEN (a + MinI32) + (b + MinI32)
    ELSE (a - MinI32) + (b - MinI32)

\* VMEnv::iadd, src/src/env.rs:44-48.  `a + b` on i32 panics on overflow
\* when the build checks overflow and wraps otherwise.
iadd(v, checks) ==
    LET r1 == pop(v) IN
    IF r1.panic # "none" THEN r1
    ELSE IF ~IsInt(r1.ret) THEN Outcome(r1.vm, NoValue, "OperandTypeMismatch")
    ELSE LET r2 == pop(r1.vm) IN
         IF r2.panic # "none" THEN r2
         ELSE IF ~IsInt(r2.ret)
              THEN Outcome(r2.vm, NoValue, "OperandTypeMismatch")
         ELSE LET a == r1.ret.v
                  b == r2.ret.v
              IN  IF Overflows(a, b)
                  THEN IF checks
                       THEN Outcome(r2.vm, NoValue, "ArithmeticOverflow")
                       ELSE push(r2.vm, VInt(WrapAdd(a, b)))
                  ELSE push(r2.vm, VInt(a + b))

\* VMEnv::iconst, src/src/env.rs:36-38
iconst(v, val) == push(v, VInt(val))

\* VMEnv::aconst_null, src/src/env.rs:40-42
aconst_null(v) == push(v, VNull)

\* VMEnv::print, src/src/env.rs:50-53
print(v) == pop(v)

(***************************************************************************)
(* The reference stack: a plain sequence with the top at its end.          *)
(***************************************************************************)
apush(s, val) == Outcome(Append(s, val), NoValue, "none")

apop(s) ==
    IF Len(s) = 0
    THEN Outcome(s, NoValue, "StackUnderflow")
    ELSE Outcome(SubSeq(s, 1, Len(s) - 1), s[Len(s)], "none")

\* Add on the reference stack: the top two Ints are replaced by their sum.
aiadd(s, checks) ==
    LET r1 == apop(s) IN
    IF r1.panic # "none" THEN r1
    ELSE IF r1.ret.tag # "Int"
         THEN Outcome(r1.vm, NoValue, "OperandTypeMismatch")
    ELSE LET r2 == apop(r1.vm) IN
         IF r2.panic # "none" THEN r2
         ELSE IF r2.ret.tag # "Int"
              THEN Outcome(r2.vm, NoValue, "OperandTypeMismatch")
         ELSE IF Overflows(r1.ret.v, r2.ret.v)
              THEN IF checks
                   THEN Outcome(r2.vm, NoValue, "ArithmeticOverflow")
                   ELSE apush(r2.vm, VInt(WrapAdd(r1.ret.v, r2.ret.v)))
              ELSE apush(r2.vm, VInt(r1.ret.v + r2.ret.v))

\* The handlers of execute on the reference stack.
adispatch(o, s, checks) ==
    CASE o.op = "AConstNull" -> apush(s, VNull)
      [] o.op = "IConst" -> apush(s, VInt(o.arg))
      [] o.op = "IAdd" -> aiadd(s, checks)
      [] OTHER -> Outcome(s, NoValue, "none")

(***************************************************************************)
(* Interpreter::decode, src/src/interpret.rs:28-48.  IConst carries the    *)
(* operand the opcode byte encodes; every other opcode carries 0.          *)
(***************************************************************************)
Op(name, arg) == [ok |-> TRUE, op |-> name, arg |-> arg]
UnimplementedOpcode(b) == [kind |-> "UnimplementedOpcode", byte |-> b]
NoResult == [kind |-> "none", byte |-> 0]
OkResult == [kind |-> "Ok", byte |-> 0]

\* A decoder that takes every unassigned byte for IAnd.
decode_lenient(byte_code) ==
    CASE byte_code = 1 -> Op("AConstNull", 0)
      [] byte_code \in 2..8 -> Op("IConst", byte_code - 3)
      [] byte_code = 96 -> Op("IAdd", 0)
      [] OTHER -> Op("IAnd", 0)

decode(byte_code) ==
    CASE byte_code = 1 -> Op("AConstNull", 0)
      [] byte_code = 2 -> Op("IConst", -1)
      [] byte_code = 3 -> Op("IConst", 0)
      [] byte_code = 4 -> Op("IConst", 1)
      [] byte_code = 5 -> Op("IConst", 2)
      [] byte_code = 6 -> Op("IConst", 3)
      [] byte_code = 7 -> Op("IConst", 4)
      [] byte_code = 8 -> Op("IConst", 5)
      [] byte_code = 96 -> Op("IAdd", 0)
      [] byte_code = 126 -> Op("IAnd", 0)
      [] byte_code = 145 -> Op("I2B", 0)
      [] byte_code = 146 -> Op("I2C", 0)
      [] byte_code = 135 -> Op("I2D", 0)
      [] byte_code = 134 -> Op("I2F", 0)
      [] byte_code = 133 -> Op("I2L", 0)
      [] byte_code = 147 -> Op("I2S", 0)
      [] OTHER -> [ok |-> FALSE, op |-> "none", arg |-> byte_code]

\* A match whose conversion arms pop their operand.
dispatch_conversionPops(o, v, checks) ==
    CASE o.op = "AConstNull" -> aconst_null(v)
      [] o.op = "IConst" -> iconst(v, o.arg)
      [] o.op = "IAdd" -> iadd(v, checks)
      [] o.op \in {"I2B", "I2C", "I2D", "I2F", "I2L", "I2S"} -> pop(v)
      [] OTHER -> Outcome(v, NoValue, "none")

\* The match of VMEnv::execute, src/src/env.rs:19-31: the handler of one
\* decoded opcode.
dispatch(o, v, checks) ==
    CASE o.op = "AConstNull" -> aconst_null(v)
      [] o.op = "IConst" -> iconst(v, o.arg)
      [] o.op = "IAdd" -> iadd(v, checks)
      [] OTHER -> Outcome(v, NoValue, "none")

(***************************************************************************)
(* The class-file loader, src/src/loader.rs.                               *)
(*                                                                         *)
(* A file is a sequence of bytes and a reader a position in it (the number *)
(* of bytes consumed).  A read yields Rd(pos, val) or, at the end of the   *)
(* file, the io::Error that `?` turns into ClassFileReadFailure.  A u32 is *)
(* kept as its four big-endian bytes: 0xCAFEBABE is beyond TLC's integers. *)
(***************************************************************************)
VARIABLES
    file,      \* the bytes of the class file being loaded
    desc,      \* what the file was written from (see EncClass)
    rpos,      \* the reader: bytes consumed so far
    phase,     \* the field of ClassFileHeader being read, or where load ended
    header,    \* the fields of ClassFileHeader read so far
    loaded,    \* the outcome of from_reader: none yet, the header, the error
    locals,    \* Class::from_header: source_file_name and class_name so far
    class,     \* the Class that load_from_reader returned, if it did
    resolved,  \* the outcome of Class::from_header: none yet, Class, the error
    lookups    \* the keys handed to get_constant_value so far, in order

rsvars == <<locals, class, resolved, lookups>>
ldvars == <<file, desc, rpos, phase, header, loaded, rsvars>>

Rd(p, x) == [ok |-> TRUE, pos |-> p, val |-> x, err |-> "none"]
Fail(e) == [ok |-> FALSE, pos |-> 0, val |-> 0, err |-> e]
EOF == "ClassFileReadFailure"

\* ReadBytesExt::read_u8
read_u8(f, p) ==
    IF p + 1 <= Len(f) THEN Rd(p + 1, f[p + 1]) ELSE Fail(EOF)

\* ReadBytesExt::read_u16::<BigEndian>
read_u16(f, p) ==
    IF p + 2 <= Len(f) THEN Rd(p + 2, f[p + 1] * 256 + f[p + 2]) ELSE Fail(EOF)

\* ReadBytesExt::read_u32::<BigEndian>
read_u32(f, p) ==
    IF p + 4 <= Len(f)
    THEN Rd(p + 4, <<f[p + 1], f[p + 2], f[p + 3], f[p + 4]>>)
    ELSE Fail(EOF)

\* Read::read_exact into a buffer of n bytes.
read_exact(f, p, n) ==
    IF p + n <= Len(f) THEN Rd(p + n, SubSeq(f, p + 1, p + n)) ELSE Fail(EOF)

\* `length as usize` of a u32, where it fits TLC's integers; a larger
\* length is larger than any file of the model (see read_sized).
U32Fits(w) == w[1] < 128
U32Value(w) == ((w[1] * 256 + w[2]) * 256 + w[3]) * 256 + w[4]

\* vec![0u8; length as usize] followed by read_exact.
read_sized(f, p, w) ==
    IF U32Fits(w) /\ U32Value(w) <= Len(f)
    THEN read_exact(f, p, U32Value(w))
    ELSE Fail(EOF)

\* String::from_utf8(bytes).unwrap_or("<nil>"), src/src/loader.rs:61, for
\* texts of ASCII bytes and of bytes that no UTF-8 text holds (0xF8..0xFF).
NilText == <<60, 110, 105, 108, 62>>
from_utf8(bytes) ==
    IF \A i \in 1..Len(bytes) : bytes[i] < 128 THEN bytes ELSE NilText

(***************************************************************************)
(* ConstantPoolTag, src/src/loader.rs:34-51.  One record shape for every   *)
(* variant: i1, i2 are its u8/u16 fields, w1, w2 its u32 fields.           *)
(***************************************************************************)
Zero32 == <<0, 0, 0, 0>>
Tag(kind, i1, i2, w1, w2, bytes) ==
    [kind |-> kind, i1 |-> i1, i2 |-> i2, w1 |-> w1, w2 |-> w2,
     bytes |-> bytes, text |-> from_utf8(bytes)]
Tag16(kind, i1, i2) == Tag(kind, i1, i2, Zero32, Zero32, <<>>)
Tag32(kind, w1, w2) == Tag(kind, 0, 0, w1, w2, <<>>)
Utf8(bytes) == Tag("Utf8", Len(bytes), 0, Zero32, Zero32, bytes)
Dummy == Tag16("Dummy", 0, 0)

\* The variants whose payload is one u16, two u16, one u32, two u32.
KindOfTagByte(byte) ==
    CASE byte = 1 -> "Utf8"
      [] byte = 3 -> "Integer"
      [] byte = 4 -> "Float"
      [] byte = 5 -> "Long"
      [] byte = 6 -> "Double"
      [] byte = 7 -> "Class"
      [] byte = 8 -> "String"
      [] byte = 9 -> "FieldRef"
      [] byte = 10 -> "MethodRef"
      [] byte = 11 -> "InterfaceMethodRef"
      [] byte = 12 -> "NameAndType"
      [] byte = 15 -> "MethodHandle"
      [] byte = 16 -> "MethodType"
      [] byte = 18 -> "InvokeDynamic"
      [] OTHER -> "Unexpected"

\* Two reads in a row, the second only after the first succeeded.
Then16(f, r) == IF r.ok THEN read_u16(f, r.pos) ELSE r
Then32(f, r) == IF r.ok THEN read_u32(f, r.pos) ELSE r

\* A Long or Double that leaves out its placeholder slot.
WideSlots_noDummy(tag) == <<tag>>

\* The vec! of a Long or a Double, src/src/loader.rs:66-67: the entry and
\* the Dummy that fills the second slot it takes.
WideSlots(tag) == <<tag, Dummy>>

\* ConstantPoolTag::from_reader, src/src/loader.rs:54-79: the slots one
\* entry of the byte stream yields.  An unassigned tag byte panics.
TagFromReader(f, p) ==
    LET t == read_u8(f, p)
        kind == KindOfTagByte(t.val)
    IN
    IF ~t.ok THEN t
    ELSE CASE t.val = 1 ->
                LET n == read_u16(f, t.pos)
                    b == IF n.ok THEN read_exact(f, n.pos, n.val) ELSE n
                IN  IF b.ok THEN Rd(b.pos, <<Utf8(b.val)>>) ELSE b
           [] t.val \in {3, 4} ->
                LET a == read_u32(f, t.pos)
                IN  IF a.ok THEN Rd(a.pos, <<Tag32(kind, a.val, Zero32)>>)
                    ELSE a
           [] t.val \in {5, 6} ->
                LET a == read_u32(f, t.pos)
                    b == Then32(f, a)
                IN  IF b.ok
                    THEN Rd(b.pos, WideSlots(Tag32(kind, a.val, b.val)))
                    ELSE b
           [] t.val \in {7, 8, 16} ->
                LET a == read_u16(f, t.pos)
                IN  IF a.ok THEN Rd(a.pos, <<Tag16(kind, a.val, 0)>>) ELSE a
           [] t.val \in {9, 10, 11, 12, 18} ->
                LET a == read_u16(f, t.pos)
                    b == Then16(f, a)
                IN  IF b.ok THEN Rd(b.pos, <<Tag16(kind, a.val, b.val)>>)
                    ELSE b
           [] t.val = 15 ->
                LET a == read_u8(f, t.pos)
                    b == Then16(f, a)
                IN  IF b.ok THEN Rd(b.pos, <<Tag16(kind, a.val, b.val)>>)
                    ELSE b
           [] OTHER -> Fail("UnexpectedConstantPoolTag")

\* The loop of ClassFileConstantPool::from_reader, src/src/loader.rs:279-287:
\* entries are read until the pool holds at least `limit` slots.
RECURSIVE PoolLoop(_, _, _, _)
PoolLoop(f, p, limit, pool) ==
    IF Len(pool) >= limit THEN Rd(p, pool)
    ELSE LET tags == TagFromReader(f, p)
         IN  IF tags.ok THEN PoolLoop(f, tags.pos, limit, pool \o tags.val)
             ELSE tags

\* ClassFileConstantPool::from_reader, src/src/loader.rs:274-292.
\* `constant_pool_count - 1` is a u16 subtraction: for a count of 0 it
\* panics when the build checks overflow and wraps to 65535 otherwise.
PoolFromReader(f, p, checks) ==
    LET c == read_u16(f, p) IN
    IF ~c.ok THEN c
    ELSE IF c.val = 0 /\ checks THEN Fail("SubtractOverflow")
    ELSE LET limit == IF c.val = 0 THEN 65535 ELSE c.val - 1
             r == PoolLoop(f, c.pos, limit, <<>>)
         IN  IF r.ok
             THEN Rd(r.pos, [constant_pool_count |-> c.val,
                             constant_pool |-> r.val])
             ELSE r

\* ClassReader::get_constant_value, src/src/loader.rs:601-603: the slot at
\* key - 1, or None.  `key - 1` is a usize subtraction: for key 0 it panics
\* when the build checks overflow and wraps (so that get finds nothing)
\* otherwise.
NoTag == Tag16("None", 0, 0)
get_constant_value(pool, key, checks) ==
    IF key = 0
    THEN [some |-> FALSE, tag |-> NoTag,
          panic |-> IF checks THEN "SubtractOverflow" ELSE "none"]
    ELSE IF key - 1 < Len(pool)
         THEN [some |-> TRUE, tag |-> pool[key], panic |-> "none"]
         ELSE [some |-> FALSE, tag |-> NoTag, panic |-> "none"]

(***************************************************************************)
(* AccessFlags::from_reader, src/src/loader.rs:318-380.                    *)
(***************************************************************************)
\* value & mask == mask, for a mask of one bit (mask = 2^k).
HasBit(value, mask) == (value \div mask) % 2 = 1

FlagIf(value, mask, name) == IF HasBit(value, mask) THEN <<name>> ELSE <<>>

\* The flags of a word, in the order the decoder pushes them.
FlagsOfWord(value, is_method) ==
    FlagIf(value, 1, "Public") \o FlagIf(value, 2, "Private")
    \o FlagIf(value, 4, "Protected") \o FlagIf(value, 8, "Static")
    \o FlagIf(value, 16, "Final")
    \o FlagIf(value, 32, IF is_method THEN "Synchronized" ELSE "Super")
    \o FlagIf(value, 64, IF is_method THEN "Bridge" ELSE "Volatile")
    \o FlagIf(value, 128, IF is_method THEN "Varargs" ELSE "Transient")
    \o FlagIf(value, 256, "Native") \o FlagIf(value, 512, "Interface")
    \o FlagIf(value, 1024, "Abstract") \o FlagIf(value, 2048, "Strict")
    \o FlagIf(value, 4096, "Synthetic") \o FlagIf(value, 8192, "Annotation")
    \o FlagIf(value, 16384, "Enum")

AccessFlagsFromReader(f, p, is_method) ==
    LET w == read_u16(f, p)
    IN  IF w.ok THEN Rd(w.pos, FlagsOfWord(w.val, is_method)) ELSE w

(***************************************************************************)
(* Interfaces, attributes, fields and methods,                             *)
(* src/src/loader.rs:387-548.                                              *)
(***************************************************************************)
\* The for loop of ClassFileInterfaces::from_reader, src/src/loader.rs:391-395
RECURSIVE InterfacesLoop(_, _, _, _)
InterfacesLoop(f, p, n, acc) ==
    IF n = 0 THEN Rd(p, acc)
    ELSE LET i == read_u16(f, p)
         IN  IF i.ok THEN InterfacesLoop(f, i.pos, n - 1, Append(acc, i.val))
             ELSE i

\* ClassFileInterfaces::from_reader, src/src/loader.rs:388-400
InterfacesFromReader(f, p) ==
    LET c == read_u16(f, p)
    IN  IF c.ok THEN InterfacesLoop(f, c.pos, c.val, <<>>) ELSE c

\* AttributeInfo::from_reader, src/src/loader.rs:411-421
AttributeInfoFromReader(f, p) ==
    LET n == read_u16(f, p)
        l == Then32(f, n)
        b == IF l.ok THEN read_sized(f, l.pos, l.val) ELSE l
    IN  IF b.ok
        THEN Rd(b.pos, [attribute_name_index |-> n.val,
                        attribute_length |-> l.val, info |-> b.val])
        ELSE b

\* The for loop of ClassFileAttributes::from_reader, src/src/loader.rs:446-450
RECURSIVE AttributesLoop(_, _, _, _)
AttributesLoop(f, p, n, acc) ==
    IF n = 0 THEN Rd(p, acc)
    ELSE LET a == AttributeInfoFromReader(f, p)
         IN  IF a.ok THEN AttributesLoop(f, a.pos, n - 1, Append(acc, a.val))
             ELSE a

\* ClassFileAttributes::from_reader, src/src/loader.rs:443-456
AttributesFromReader(f, p) ==
    LET c == read_u16(f, p)
    IN  IF c.ok THEN AttributesLoop(f, c.pos, c.val, <<>>) ELSE c

\* FieldInfo::from_reader and MethodInfo::from_reader share one layout; the
\* caller names the is_method argument it hands to AccessFlags::from_reader.
MemberFromReader(f, p, is_method) ==
    LET fl == AccessFlagsFromReader(f, p, is_method)
        n == Then16(f, fl)
        d == Then16(f, n)
        a == IF d.ok THEN AttributesFromReader(f, d.pos) ELSE d
    IN  IF a.ok
        THEN Rd(a.pos, [access_flags |-> fl.val, name_index |-> n.val,
                        description_index |-> d.val, attributes |-> a.val])
        ELSE a

\* FieldInfo::from_reader, src/src/loader.rs:468-480
FieldInfoFromReader(f, p) == MemberFromReader(f, p, FALSE)

\* MethodInfo::from_reader, src/src/loader.rs:513-525: it too passes false.
MethodInfoFromReader(f, p) == MemberFromReader(f, p, FALSE)

\* The for loop of ClassFileFields::from_reader, src/src/loader.rs:492-496
RECURSIVE FieldsLoop(_, _, _, _)
FieldsLoop(f, p, n, acc) ==
    IF n = 0 THEN Rd(p, acc)
    ELSE LET m == FieldInfoFromReader(f, p)
         IN  IF m.ok THEN FieldsLoop(f, m.pos, n - 1, Append(acc, m.val))
             ELSE m

\* ClassFileFields::from_reader, src/src/loader.rs:489-501
FieldsFromReader(f, p) ==
    LET c == read_u16(f, p)
    IN  IF c.ok THEN FieldsLoop(f, c.pos, c.val, <<>>) ELSE c

\* The for loop of ClassFileMethods::from_reader, src/src/loader.rs:538-542
RECURSIVE MethodsLoop(_, _, _, _)
MethodsLoop(f, p, n, acc) ==
    IF n = 0 THEN Rd(p, acc)
    ELSE LET m == MethodInfoFromReader(f, p)
         IN  IF m.ok THEN MethodsLoop(f, m.pos, n - 1, Append(acc, m.val))
             ELSE m

\* ClassFileMethods::from_reader, src/src/loader.rs:535-547
MethodsFromReader(f, p) ==
    LET c == read_u16(f, p)
    IN  IF c.ok THEN MethodsLoop(f, c.pos, c.val, <<>>) ELSE c

(***************************************************************************)
(* Inputs.                                                                 *)
(***************************************************************************)
\* Values handed to VM::push directly.
PushValues == {VInt(2), VNull, VLong(1)}
\* Arguments of VMEnv::iconst (any i32; 8 and 2 are those of test_basic_math).
IConstArgs == {8, 2, -1, MaxI32}
\* Instruction bytes: every byte decode assigns, and three it does not
\* (0x00, 0x68, 0xFF).
Bytes == {1, 2, 3, 4, 5, 6, 7, 8, 96, 126, 133, 134, 135, 145, 146, 147,
          0, 104, 255}

RECURSIVE SeqsUpTo(_, _)
SeqsUpTo(S, n) ==
    IF n = 0 THEN {<<>>}
    ELSE LET shorter == SeqsUpTo(S, n - 1)
         IN  shorter \cup {Append(q, x) : q \in shorter, x \in S}

Codes == SeqsUpTo(Bytes, MaxCodeLen)

NoCall == [op |-> "none", vm |-> VMNew, ret |-> NoValue,
           aret |-> NoValue, apanic |-> "none"]

(***************************************************************************)
(* Class files.  A file of the model is written from a description: the    *)
(* values of the fields in the order ClassFileHeader::from_reader reads    *)
(* them, then cut to its first `cut` bytes.                                *)
(***************************************************************************)
U16(n) == <<n \div 256, n % 256>>
\* A u32 below 65536.
U32(n) == <<0, 0>> \o U16(n)

\* The tag byte of each variant, src/src/loader.rs:57-76.
TagByteOfKind(kind) ==
    CASE kind = "Utf8" -> 1
      [] kind = "Integer" -> 3
      [] kind = "Float" -> 4
      [] kind = "Long" -> 5
      [] kind = "Double" -> 6
      [] kind = "Class" -> 7
      [] kind = "String" -> 8
      [] kind = "FieldRef" -> 9
      [] kind = "MethodRef" -> 10
      [] kind = "InterfaceMethodRef" -> 11
      [] kind = "NameAndType" -> 12
      [] kind = "MethodHandle" -> 15
      [] kind = "MethodType" -> 16
      [] kind = "InvokeDynamic" -> 18

\* An entry with a tag byte no variant has: the byte alone.
Unexpected(byte) == Tag16("Unexpected", byte, 0)

\* The bytes of one constant-pool entry.
EncTag(t) ==
    CASE t.kind = "Unexpected" -> <<t.i1>>
      [] t.kind = "Utf8" -> <<1>> \o U16(t.i1) \o t.bytes
      [] t.kind \in {"Integer", "Float"} -> <<TagByteOfKind(t.kind)>> \o t.w1
      [] t.kind \in {"Long", "Double"} ->
            <<TagByteOfKind(t.kind)>> \o t.w1 \o t.w2
      [] t.kind \in {"Class", "String", "MethodType"} ->
            <<TagByteOfKind(t.kind)>> \o U16(t.i1)
      [] t.kind = "MethodHandle" -> <<15, t.i1>> \o U16(t.i2)
      [] OTHER -> <<TagByteOfKind(t.kind)>> \o U16(t.i1) \o U16(t.i2)

RECURSIVE EncSeq(_, _)
\* The bytes of a table: EncSeq("tag", entries), EncSeq("u16", indices),
\* EncSeq("attribute", attributes), EncSeq("member", fields or methods).
EncSeq(what, q) ==
    IF q = <<>> THEN <<>>
    ELSE LET x == Head(q)
             bytes ==
               CASE what = "tag" -> EncTag(x)
                 [] what = "u16" -> U16(x)
                 [] what = "attribute" ->
                      U16(x.attribute_name_index) \o U32(Len(x.info)) \o x.info
                 [] what = "member" ->
                      U16(x.flags) \o U16(x.name_index)
                      \o U16(x.description_index)
                      \o U16(Len(x.attributes))
                      \o EncSeq("attribute", x.attributes)
         IN  bytes \o EncSeq(what, Tail(q))

\* The bytes of a class file, in the order of src/src/loader.rs:567-577.
EncClass(d) ==
    d.magic \o U16(d.minor) \o U16(d.major)
    \o U16(d.count) \o EncSeq("tag", d.entries)
    \o U16(d.flags) \o U16(d.this_class) \o U16(d.super_class)
    \o U16(Len(d.interfaces)) \o EncSeq("u16", d.interfaces)
    \o U16(Len(d.fields)) \o EncSeq("member", d.fields)
    \o U16(Len(d.methods)) \o EncSeq("member", d.methods)
    \o U16(Len(d.attributes)) \o EncSeq("attribute", d.attributes)

\* The first n bytes of a file (all of it when n is its length or more).
CutTo(bytes, n) == SubSeq(bytes, 1, IF n < Len(bytes) THEN n ELSE Len(bytes))

(***************************************************************************)
(* The class files of the model.                                           *)
(***************************************************************************)
\* 0xCAFEBABE, src/src/loader.rs:579
Magic == <<202, 254, 186, 190>>

\* "T", "SourceFile", "T.java", "main", "()V", "Code", "ConstantValue"
TextT == <<84>>
TextSourceFile == <<83, 111, 117, 114, 99, 101, 70, 105, 108, 101>>
TextTJava == <<84, 46, 106, 97, 118, 97>>
TextMain == <<109, 97, 105, 110>>
TextVoid == <<40, 41, 86>>
TextCode == <<67, 111, 100, 101>>
TextConstantValue ==
    <<67, 111, 110, 115, 116, 97, 110, 116, 86, 97, 108, 117, 101>>

\* A Code attribute (name at pool index 7): max_stack 2, max_locals 1, the
\* code iconst_2 iconst_2 iadd, no exception table, no attributes.
CodeAttribute ==
    [attribute_name_index |-> 7,
     info |-> U16(2) \o U16(1) \o U32(3) \o <<5, 5, 96>> \o U16(0) \o U16(0)]

\* A method of a description: what is written to the file and, in `body`,
\* the instruction bytes it was written with (none: <<>>).
MethodDesc(word, name_index, description_index, attributes, body) ==
    [flags |-> word, name_index |-> name_index,
     description_index |-> description_index, attributes |-> attributes,
     body |-> body]

\* A method `main()V` with the given flag word.
MethodOf(word) == MethodDesc(word, 5, 6, <<CodeAttribute>>, <<5, 5, 96>>)

\* class T, compiled from T.java, with `public static main()V`.
BaseClass ==
    [magic |-> Magic, minor |-> 0, major |-> 52, count |-> 8,
     entries |-> <<Utf8(TextT), Tag16("Class", 1, 0), Utf8(TextSourceFile),
                   Utf8(TextTJava), Utf8(TextMain), Utf8(TextVoid),
                   Utf8(TextCode)>>,
     flags |-> 33, this_class |-> 2, super_class |-> 0,
     interfaces |-> <<>>, fields |-> <<>>,
     methods |-> <<MethodOf(9)>>,
     attributes |-> <<[attribute_name_index |-> 3, info |-> U16(4)]>>,
     cut |-> 65535]

\* A class with nothing but its pool.
BareClass ==
    [BaseClass EXCEPT !.methods = <<>>, !.attributes = <<>>,
                      !.this_class = 1]

\* Entries per pool, methods per class.
MaxEntries == 3
MaxMethods == 2

\* The entries pools are made of: a Utf8, a Long, a Double, an Integer and
\* a tag byte (2) that no variant has.
PoolEntries ==
    {Utf8(TextT), Tag32("Long", <<0, 0, 0, 1>>, <<0, 0, 0, 2>>),
     Tag32("Double", <<64, 0, 0, 0>>, Zero32),
     Tag32("Integer", <<0, 0, 0, 7>>, Zero32), Unexpected(2)}

\* Pools of every shape, with every declared count from 0 to one more than
\* the slots the entries can fill.
PoolFamily ==
    {[BareClass EXCEPT !.entries = e, !.count = c] :
        e \in SeqsUpTo(PoolEntries, MaxEntries),
        c \in 0..(2 * MaxEntries + 2)}

\* Good and bad magic and version, whole and truncated files, and a pool
\* with an unexpected tag.
MagicFamily ==
    {[BaseClass EXCEPT !.magic = m, !.major = v, !.cut = k,
                       !.entries[3] = e] :
        m \in {Magic, <<202, 254, 186, 191>>, Zero32},
        v \in {50, 52, 61},
        k \in {2, 4, 8, 30, 65535},
        e \in {Utf8(TextSourceFile), Unexpected(2)}}

\* Flag words of the class and of its methods:
\* 0x0001, 0x0009, 0x0021, 0x0049, 0x0081, 0x0109.
FlagWords == {1, 9, 33, 73, 129, 265}
MethodFamily ==
    {[BaseClass EXCEPT !.flags = cf, !.methods = ms] :
        cf \in {1, 33, 1057},
        ms \in SeqsUpTo({MethodOf(w) : w \in FlagWords}, MaxMethods)}

\* "run"
TextRun == <<114, 117, 110>>

\* class T with a pool of every shape get_class_name meets:
\*   1 "T"              7 "Code"              13 Class(99)
\*   2 Class(1)         8 NameAndType(1, 6)   14 Class(0)
\*   3 "SourceFile"     9 Class(8)            15 NameAndType(2, 6)
\*   4 "T.java"        10 Class(2)            16 Class(15)
\*   5 "main"          11 Long                17 "ConstantValue"
\*   6 "()V"           12 (its placeholder)   18 "run"
ResolveBase ==
    [BaseClass EXCEPT
        !.count = 19,
        !.entries = @ \o <<Tag16("NameAndType", 1, 6), Tag16("Class", 8, 0),
                           Tag16("Class", 2, 0),
                           Tag32("Long", <<0, 0, 0, 1>>, <<0, 0, 0, 2>>),
                           Tag16("Class", 99, 0), Tag16("Class", 0, 0),
                           Tag16("NameAndType", 2, 6), Tag16("Class", 15, 0),
                           Utf8(TextConstantValue), Utf8(TextRun)>>]

\* Every this_class: index 0, each kind of entry, one past the last slot.
ClassNameFamily ==
    {[ResolveBase EXCEPT !.this_class = i] :
        i \in {0, 1, 2, 9, 10, 11, 12, 13, 14, 16, 18, 19}}

\* Attributes per class-level attribute table.
MaxAttributes == 2

\* An attribute with its name at pool index n.
AttributeOf(n, info) == [attribute_name_index |-> n, info |-> info]

\* Class-level attributes: SourceFile naming "T.java", "()V", the Class
\* entry 2, index 0 and index 99; a SourceFile and a ConstantValue with
\* nothing in them; an attribute named "T"; attributes whose name index is
\* 0, 99 and the Class entry 2.
ClassAttributes ==
    {AttributeOf(3, U16(4)), AttributeOf(3, U16(6)), AttributeOf(3, U16(2)),
     AttributeOf(3, U16(0)), AttributeOf(3, U16(99)), AttributeOf(3, <<>>),
     AttributeOf(17, <<>>), AttributeOf(1, <<1, 2>>), AttributeOf(0, <<>>),
     AttributeOf(99, <<>>), AttributeOf(2, <<>>)}

AttributeFamily ==
    {[ResolveBase EXCEPT !.attributes = a] :
        a \in SeqsUpTo(ClassAttributes, MaxAttributes)}

\* A Code attribute with the given instruction bytes; one with an
\* exception entry and a nested attribute after them; one that ends inside
\* its instruction bytes.
CodeAttributeOf(body) ==
    AttributeOf(7, U16(2) \o U16(1) \o U32(Len(body)) \o body
                   \o U16(0) \o U16(0))
CodeAttributeFull(body) ==
    AttributeOf(7, U16(2) \o U16(1) \o U32(Len(body)) \o body
                   \o U16(1) \o U16(0) \o U16(1) \o U16(1) \o U16(0)
                   \o U16(1) \o U16(1) \o U32(0))
CodeAttributeCut == AttributeOf(7, U16(2) \o U16(1) \o U32(3) \o <<5>>)

\* Methods: `main` and `run` with code, `main` with other code, with two
\* Code attributes, with none, with an attribute named "T" after its code;
\* methods whose name (the Class entry 2, the placeholder 12, index 0),
\* description or attribute name does not resolve, and one whose Code
\* attribute is cut.
MethodShapes ==
    {MethodDesc(9, 5, 6, <<CodeAttributeOf(<<5, 5, 96>>)>>, <<5, 5, 96>>),
     MethodDesc(9, 5, 6, <<CodeAttributeFull(<<4, 145>>)>>, <<4, 145>>),
     MethodDesc(1, 18, 6, <<CodeAttributeOf(<<1>>)>>, <<1>>),
     MethodDesc(9, 5, 6, <<CodeAttributeOf(<<1>>),
                           CodeAttributeOf(<<3, 4, 96>>)>>, <<3, 4, 96>>),
     MethodDesc(1025, 5, 6, <<>>, <<>>),
     MethodDesc(1, 18, 6, <<CodeAttributeOf(<<8>>), AttributeOf(1, <<7>>)>>,
                <<8>>),
     MethodDesc(1, 2, 6, <<>>, <<>>),
     MethodDesc(1, 12, 6, <<>>, <<>>),
     MethodDesc(1, 0, 6, <<>>, <<>>),
     MethodDesc(1, 5, 99, <<>>, <<>>),
     MethodDesc(1, 5, 6, <<AttributeOf(99, <<>>)>>, <<>>),
     MethodDesc(1, 5, 6, <<CodeAttributeCut>>, <<>>)}

MethodsFamily ==
    {[ResolveBase EXCEPT !.methods = ms] :
        ms \in SeqsUpTo(MethodShapes, MaxMethods)}

Descriptions ==
    PoolFamily \cup MagicFamily \cup MethodFamily \cup ClassNameFamily
    \cup AttributeFamily \cup MethodsFamily

(***************************************************************************)
(* ClassReader, src/src/loader.rs:592-691.  A resolver answers Ok(value)   *)
(* or Err(error), together with the keys it handed to get_constant_value   *)
(* on the way, in order.                                                   *)
(***************************************************************************)
\* ClassLoadError as Class::from_header returns it, src/src/loader.rs:9-18,
\* and the panics of the resolver; kind "none" while it runs.
LoadError(kind, index, name, expected) ==
    [kind |-> kind, index |-> index, name |-> name, expected |-> expected]
NoError == LoadError("none", 0, <<>>, "")
ConstantPoolMissing(i) == LoadError("ConstantPoolMissing", i, <<>>, "")
AttributeMissing(n) == LoadError("AttributeMissing", 0, n, "")
AttributeTypeMismatch(n) == LoadError("AttributeTypeMismatch", 0, n, "")
ConstantPoolTypeMismatch(e) == LoadError("ConstantPoolTypeMismatch", 0, <<>>, e)
ClassFileReadFailure == LoadError(EOF, 0, <<>>, "")
Panicked(p) == LoadError(p, 0, <<>>, "")
ClassOk == LoadError("Class", 0, <<>>, "")

Ok(x, used) == [ok |-> TRUE, val |-> x, err |-> NoError, keys |-> used]
Err(e, used) == [ok |-> FALSE, val |-> 0, err |-> e, keys |-> used]

\* `option.ok_or(e)?`: the option u, found after the keys k were looked up,
\* or the error e; a panic in the lookup unwinds.
ok_or(u, e, k) ==
    IF u.panic # "none" THEN Err(Panicked(u.panic), k)
    ELSE IF ~u.some THEN Err(e, k)
    ELSE Ok(u, k)

\* The `if let ConstantPoolTag::Utf8(_, _, value)` of get_constant_utf8 on
\* what get_constant_value answered.
Utf8Of(r) ==
    [some |-> r.some /\ r.tag.kind = "Utf8",
     text |-> IF r.some /\ r.tag.kind = "Utf8" THEN r.tag.text ELSE <<>>,
     panic |-> r.panic]

\* ClassReader::get_constant_utf8, src/src/loader.rs:605-610: the text of a
\* Utf8 entry; None for a missing entry and for an entry of another variant.
get_constant_utf8(pool, index, checks) ==
    Utf8Of(get_constant_value(pool, index, checks))

\* AttributeValue, src/src/loader.rs:204-211: `index` is the u16 of
\* ConstantValue and SourceFile, `bytes` the code of Code and the info of
\* Unidentified.
AttributeValue(kind, index, bytes) ==
    [kind |-> kind, index |-> index, bytes |-> bytes]

\* Reads on a cursor, each only after the read before it succeeded: a
\* buffer of the u32 length read, the ExceptionEntry table (four u16 reads
\* per entry) of the u16 length read, the attribute table of the u16 count.
ThenSized(f, r) == IF r.ok THEN read_sized(f, r.pos, r.val) ELSE r
ThenExceptions(f, r) == IF r.ok THEN read_exact(f, r.pos, 8 * r.val) ELSE r
ThenAttributes(f, r) ==
    IF r.ok THEN AttributesLoop(f, r.pos, r.val, <<>>) ELSE r

\* AttributeValue::Code(...) once the rest of the cursor is read.
CodeValue(code_bytes, rest) ==
    IF rest.ok THEN Rd(rest.pos, AttributeValue("Code", 0, code_bytes.val))
    ELSE rest

\* The "Code" arm from exc_table_length on, src/src/loader.rs:225-244.
CodeAfter(info, code_bytes) ==
    CodeValue(code_bytes,
              ThenAttributes(info,
                Then16(info, ThenExceptions(info, Then16(info, code_bytes)))))

\* The "Code" arm of from_name_and_info, src/src/loader.rs:219-245, on a
\* cursor over info: max_stack, max_locals, code_length, code, and the rest.
CodeFromInfo(info) ==
    CodeAfter(info,
              ThenSized(info, Then32(info, Then16(info, read_u16(info, 0)))))

\* ConstantValue(u16) and SourceFile(u16) of the u16 read.
IndexValue(kind, r) ==
    IF r.ok THEN Rd(r.pos, AttributeValue(kind, r.val, <<>>)) ELSE r

\* AttributeValue::from_name_and_info, src/src/loader.rs:214-265.  The two
\* RuntimeInvisible... names are in no pool of the model.
from_name_and_info(name, info) ==
    CASE name = TextConstantValue ->
            IndexValue("ConstantValue", read_u16(info, 0))
      [] name = TextSourceFile -> IndexValue("SourceFile", read_u16(info, 0))
      [] name = TextCode -> CodeFromInfo(info)
      [] OTHER -> Rd(0, AttributeValue("Unidentified", 0, info))

\* Ok((name, value)), or the read failure `?` makes of a failed parse.
Interpreted(name, k, v) ==
    IF v.ok THEN Ok([name |-> name, value |-> v.val], k)
    ELSE Err(ClassFileReadFailure, k)

\* from_name_and_info on the name n that was resolved for the attribute.
InterpretNamed(n, info) ==
    IF ~n.ok THEN n
    ELSE Interpreted(n.val.text, n.keys, from_name_and_info(n.val.text, info))

\* The name of an attribute is resolved and its info interpreted; e is the
\* error for a name that get_constant_utf8 does not find.
NamedAttributeValue(pool, attribute, checks, e) ==
    InterpretNamed(ok_or(get_constant_utf8(pool,
                                           attribute.attribute_name_index,
                                           checks),
                         e, <<attribute.attribute_name_index>>),
                   attribute.info)

\* ClassReader::get_attribute_value, src/src/loader.rs:612-617
get_attribute_value(pool, attribute, checks) ==
    NamedAttributeValue(pool, attribute, checks,
                        ConstantPoolMissing(attribute.attribute_name_index))

RECURSIVE ClassAttributeLoop(_, _, _, _, _, _)
\* The body of the for loop of get_class_attribute, src/src/loader.rs:630-633,
\* for the i-th attribute, whose value is a.
ClassAttributeStep(pool, attributes, i, name, checks, keys, a) ==
    IF ~a.ok THEN Err(a.err, keys \o a.keys)
    ELSE IF name = a.val.name THEN Ok(a.val.value, keys \o a.keys)
    ELSE ClassAttributeLoop(pool, attributes, i + 1, name, checks,
                            keys \o a.keys)

\* The for loop of get_class_attribute, src/src/loader.rs:629-635, from the
\* i-th attribute on.
ClassAttributeLoop(pool, attributes, i, name, checks, keys) ==
    IF i > Len(attributes) THEN Err(AttributeMissing(name), keys)
    ELSE ClassAttributeStep(pool, attributes, i, name, checks, keys,
                            get_attribute_value(pool, attributes[i], checks))

\* A scan that starts at the end of the table: the last match wins.
get_class_attribute_lastMatch(pool, attributes, name, checks) ==
    ClassAttributeLoop(pool,
                       [i \in 1..Len(attributes) |->
                           attributes[Len(attributes) + 1 - i]],
                       1, name, checks, <<>>)

\* ClassReader::get_class_attribute, src/src/loader.rs:628-636
get_class_attribute(pool, attributes, name, checks) ==
    ClassAttributeLoop(pool, attributes, 1, name, checks, <<>>)

\* The text of the option that ok_or let through.
TextOf(r) == IF r.ok THEN Ok(r.val.text, r.keys) ELSE r

\* The match of get_source_file, src/src/loader.rs:640-643, on the
\* attribute a that get_class_attribute answered.
SourceFileOf(pool, checks, a) ==
    IF ~a.ok THEN a
    ELSE IF a.val.kind # "SourceFile"
         THEN Err(AttributeTypeMismatch(TextSourceFile), a.keys)
    ELSE TextOf(ok_or(get_constant_utf8(pool, a.val.index, checks),
                      AttributeMissing(TextSourceFile),
                      Append(a.keys, a.val.index)))

\* ClassReader::get_source_file, src/src/loader.rs:638-644
get_source_file(pool, attributes, checks) ==
    SourceFileOf(pool, checks,
                 get_class_attribute(pool, attributes, TextSourceFile, checks))

\* The match of get_class_name, src/src/loader.rs:650-658, on the entry c
\* that the Class entry names.
ClassNameOf(pool, checks, c) ==
    IF ~c.ok THEN c
    ELSE IF c.val.tag.kind = "Utf8" THEN Ok(c.val.tag.text, c.keys)
    ELSE IF c.val.tag.kind = "NameAndType"
         THEN TextOf(ok_or(get_constant_utf8(pool, c.val.tag.i1, checks),
                           ConstantPoolMissing(c.val.tag.i1),
                           Append(c.keys, c.val.tag.i1)))
    ELSE Err(ConstantPoolTypeMismatch("NameAndType"), c.keys)

\* The `if let ConstantPoolTag::Class(class_index)` of get_class_name,
\* src/src/loader.rs:649-661, on the entry e found at this_class.
ClassEntryOf(pool, checks, e) ==
    IF ~e.ok THEN e
    ELSE IF e.val.tag.kind # "Class"
         THEN Err(ConstantPoolTypeMismatch("Class"), e.keys)
    ELSE ClassNameOf(pool, checks,
                     ok_or(get_constant_value(pool, e.val.tag.i1, checks),
                           ConstantPoolMissing(e.val.tag.i1),
                           Append(e.keys, e.val.tag.i1)))

\* ClassReader::get_class_name, src/src/loader.rs:646-662
get_class_name(pool, this_class, checks) ==
    ClassEntryOf(pool, checks,
                 ok_or(get_constant_value(pool, this_class, checks),
                       ConstantPoolMissing(this_class), <<this_class>>))

RECURSIVE MethodCodeLoop(_, _, _, _, _, _, _)
\* The body of the inner for loop of get_methods, src/src/loader.rs:675-682,
\* for the j-th attribute, whose value is a.
MethodCodeStep(pool, attributes, j, name_index, method_code, checks, keys, a) ==
    IF ~a.ok THEN Err(a.err, keys \o a.keys)
    ELSE MethodCodeLoop(pool, attributes, j + 1, name_index,
                        IF a.val.value.kind = "Code" THEN a.val.value.bytes
                        ELSE method_code,
                        checks, keys \o a.keys)

\* The inner for loop of get_methods, src/src/loader.rs:674-683, from the
\* j-th attribute of the method on.  A missing attribute name is reported
\* with the name_index of the method (line 676).
MethodCodeLoop(pool, attributes, j, name_index, method_code, checks, keys) ==
    IF j > Len(attributes) THEN Ok(method_code, keys)
    ELSE MethodCodeStep(pool, attributes, j, name_index, method_code, checks,
                        keys,
                        NamedAttributeValue(pool, attributes[j], checks,
                                            ConstantPoolMissing(name_index)))

\* Method, src/src/loader.rs:694-697
Method(name, method_code) == [method_name |-> name, code |-> method_code]

\* HashMap::new() and HashMap::insert: a map is a function on its keys.
EmptyMap == [n \in {} |-> Method(<<>>, <<>>)]

\* An insert that keeps the value a key already has.
MapInsert_keepFirst(map, key, value) ==
    IF key \in DOMAIN map THEN map
    ELSE [n \in DOMAIN map \cup {key} |-> IF n = key THEN value ELSE map[n]]

MapInsert(map, key, value) ==
    [n \in DOMAIN map \cup {key} |-> IF n = key THEN value ELSE map[n]]

RECURSIVE MethodsMapLoop(_, _, _, _, _, _)
\* map.insert of the i-th method, named method_name, with the code c of
\* its attributes, src/src/loader.rs:684-687.
MethodInsert(pool, methods, i, map, checks, method_name, c) ==
    IF ~c.ok THEN c
    ELSE MethodsMapLoop(pool, methods, i + 1,
                        MapInsert(map, method_name, Method(method_name, c.val)),
                        checks, c.keys)

\* The i-th method from its resolved description d on,
\* src/src/loader.rs:673-687.
MethodDescribed(pool, methods, i, map, checks, method_name, d) ==
    IF ~d.ok THEN d
    ELSE MethodInsert(pool, methods, i, map, checks, method_name,
                      MethodCodeLoop(pool, methods[i].attributes, 1,
                                     methods[i].name_index, <<>>, checks,
                                     d.keys))

\* The i-th method from its resolved name n on, src/src/loader.rs:671-687.
MethodNamed(pool, methods, i, map, checks, n) ==
    IF ~n.ok THEN n
    ELSE MethodDescribed(pool, methods, i, map, checks, n.val.text,
             ok_or(get_constant_utf8(pool, methods[i].description_index,
                                     checks),
                   ConstantPoolMissing(methods[i].description_index),
                   Append(n.keys, methods[i].description_index)))

\* The outer for loop of get_methods, src/src/loader.rs:666-688, from the
\* i-th method on.
MethodsMapLoop(pool, methods, i, map, checks, keys) ==
    IF i > Len(methods) THEN Ok(map, keys)
    ELSE MethodNamed(pool, methods, i, map, checks,
             ok_or(get_constant_utf8(pool, methods[i].name_index, checks),
                   ConstantPoolMissing(methods[i].name_index),
                   Append(keys, methods[i].name_index)))

\* ClassReader::get_methods, src/src/loader.rs:664-690
get_methods(pool, methods, checks) ==
    MethodsMapLoop(pool, methods, 1, EmptyMap, checks, <<>>)

\* Class, src/src/loader.rs:700-704, and the locals of Class::from_header.
NoLocals == [source_file_name |-> <<>>, class_name |-> <<>>]
NoClass == [class_name |-> <<>>, source_file_name |-> <<>>, methods |-> EmptyMap]

(***************************************************************************)
(* ClassFileHeader, src/src/loader.rs:550-562, before anything is read,    *)
(* and the outcomes of a load.                                             *)
(***************************************************************************)
NoHeader ==
    [magic |-> Zero32, version_minor |-> 0, version_major |-> 0,
     constant_pool_count |-> 0, constant_pool |-> <<>>,
     access_flags |-> <<>>, this_class |-> 0, super_class |-> 0,
     interfaces |-> <<>>, fields |-> <<>>, methods |-> <<>>,
     attributes |-> <<>>]

\* ClassLoadError, src/src/loader.rs:9-18, and the panics of the loader;
\* kind "none" while the load runs and "Header" for Ok(header).
Outcome32(kind, w, a, b) == [kind |-> kind, magic |-> w, major |-> a, minor |-> b]
NoLoad == Outcome32("none", Zero32, 0, 0)
LoadFailure(kind) == Outcome32(kind, Zero32, 0, 0)
MagicMismatch(w) == Outcome32("MagicMismatch", w, 0, 0)
VersionUnsupported(a, b) == Outcome32("VersionUnsupported", Zero32, a, b)
HeaderOk == Outcome32("Header", Zero32, 0, 0)

(***************************************************************************)
(* The state after VM::new and VMEnv::of.                                  *)
(***************************************************************************)
InitVM ==
    /\ vm = VMNew
    /\ lifo = <<>>
    /\ last = NoCall
    /\ panic = "none"
    /\ nCalls = 0
    /\ status = "Ready"
    /\ code = <<>>
    /\ pc = 1
    /\ trace = <<>>
    /\ pre = VMNew
    /\ result = NoResult
    /\ overflow_checks \in BOOLEAN

\* Class::from_header has not run.
InitResolve ==
    /\ locals = NoLocals
    /\ class = NoClass
    /\ resolved = NoError
    /\ lookups = <<>>

\* No load is under way.
Init ==
    /\ InitVM
    /\ file = <<>>
    /\ desc = BaseClass
    /\ rpos = 0
    /\ phase = "idle"
    /\ header = NoHeader
    /\ loaded = NoLoad
    /\ InitResolve

\* Loader::load_from_reader is called on a file.
InitLoad ==
    /\ InitVM
    /\ desc \in Descriptions
    /\ file = CutTo(EncClass(desc), desc.cut)
    /\ rpos = 0
    /\ phase = "magic"
    /\ header = NoHeader
    /\ loaded = NoLoad
    /\ InitResolve

(***************************************************************************)
(* Direct calls.  A call is made by the one owner of the VM, between       *)
(* execute calls; a panic unwinds the caller and nothing runs after it.    *)
(***************************************************************************)
Call(name, o, a) ==
    /\ vm' = o.vm
    /\ lifo' = a.vm
    /\ last' = [op |-> name, vm |-> vm, ret |-> o.ret,
                aret |-> a.ret, apanic |-> a.panic]
    /\ panic' = o.panic
    /\ nCalls' = nCalls + 1
    /\ UNCHANGED <<exvars, overflow_checks, ldvars>>

CanCall(budget) == panic = "none" /\ status = "Ready" /\ nCalls < budget

Push(budget) ==
    /\ CanCall(budget)
    /\ \E val \in PushValues : Call("push", push(vm, val), apush(lifo, val))

Pop(budget) ==
    /\ CanCall(budget)
    /\ Call("pop", pop(vm), apop(lifo))

IConst(budget) ==
    /\ CanCall(budget)
    /\ \E val \in IConstArgs :
          Call("iconst", iconst(vm, val), apush(lifo, VInt(val)))

AConstNull(budget) ==
    /\ CanCall(budget)
    /\ Call("aconst_null", aconst_null(vm), apush(lifo, VNull))

IAdd(budget) ==
    /\ CanCall(budget)
    /\ Call("iadd", iadd(vm, overflow_checks), aiadd(lifo, overflow_checks))

PrintTop(budget) ==
    /\ CanCall(budget)
    /\ Call("print", print(vm), apop(lifo))

(***************************************************************************)
(* VMEnv::execute, src/src/env.rs:17-34, one iteration of its for loop     *)
(* per step.                                                               *)
(***************************************************************************)
Execute ==
    /\ panic = "none"
    /\ status = "Ready"
    /\ \E c \in Codes : code' = c
    /\ status' = "Running"
    /\ pc' = 1
    /\ trace' = <<>>
    /\ pre' = vm
    /\ result' = NoResult
    /\ last' = [op |-> "execute", vm |-> vm, ret |-> NoValue,
                aret |-> NoValue, apanic |-> "none"]
    /\ UNCHANGED <<vm, lifo, panic, nCalls, overflow_checks, ldvars>>

\* A loop that steps over an undecodable byte instead of returning.
ExecuteStep_skip ==
    /\ status = "Running"
    /\ pc <= Len(code)
    /\ LET d == decode(code[pc])
           o == IF d.ok THEN dispatch(d, vm, overflow_checks)
                        ELSE Outcome(vm, NoValue, "none")
           a == IF d.ok THEN adispatch(d, lifo, overflow_checks)
                        ELSE Outcome(lifo, NoValue, "none")
       IN  /\ trace' = Append(trace, pc)
           /\ pre' = vm
           /\ vm' = o.vm
           /\ lifo' = a.vm
           /\ panic' = o.panic
           /\ status' = IF o.panic # "none" THEN "Faulted" ELSE "Running"
           /\ pc' = IF o.panic # "none" THEN pc ELSE pc + 1
           /\ result' = result
    /\ UNCHANGED <<code, last, nCalls, overflow_checks, ldvars>>

\* A loop whose position advances by two after a handler returns.
ExecuteStep_twice ==
    /\ status = "Running"
    /\ pc <= Len(code)
    /\ LET d == decode(code[pc])
           o == IF d.ok THEN dispatch(d, vm, overflow_checks)
                        ELSE Outcome(vm, NoValue, "none")
           a == IF d.ok THEN adispatch(d, lifo, overflow_checks)
                        ELSE Outcome(lifo, NoValue, "none")
       IN  /\ trace' = Append(trace, pc)
           /\ pre' = vm
           /\ vm' = o.vm
           /\ lifo' = a.vm
           /\ panic' = o.panic
           /\ status' = IF ~d.ok \/ o.panic # "none" THEN "Faulted"
                        ELSE "Running"
           /\ pc' = IF ~d.ok \/ o.panic # "none" THEN pc ELSE pc + 2
           /\ result' = IF d.ok THEN result ELSE UnimplementedOpcode(code[pc])
    /\ UNCHANGED <<code, last, nCalls, overflow_checks, ldvars>>

ExecuteStep ==
    /\ status = "Running"
    /\ pc <= Len(code)
    /\ LET d == decode(code[pc])
           o == IF d.ok THEN dispatch(d, vm, overflow_checks)
                        ELSE Outcome(vm, NoValue, "none")
           a == IF d.ok THEN adispatch(d, lifo, overflow_checks)
                        ELSE Outcome(lifo, NoValue, "none")
       IN  /\ trace' = Append(trace, pc)
           /\ pre' = vm
           /\ vm' = o.vm
           /\ lifo' = a.vm
           /\ panic' = o.panic
           /\ status' = IF ~d.ok \/ o.panic # "none" THEN "Faulted"
                        ELSE "Running"
           /\ pc' = IF ~d.ok \/ o.panic # "none" THEN pc ELSE pc + 1
           /\ result' = IF d.ok THEN result ELSE UnimplementedOpcode(code[pc])
    /\ UNCHANGED <<code, last, nCalls, overflow_checks, ldvars>>

\* The loop is exhausted: Ok(()), src/src/env.rs:33.
ExecuteReturn ==
    /\ status = "Running"
    /\ pc > Len(code)
    /\ status' = "Completed"
    /\ result' = OkResult
    /\ UNCHANGED <<vmvars, code, pc, trace, pre, overflow_checks, ldvars>>

vars == <<vm, lifo, last, panic, nCalls, status, code, pc, trace, pre,
          result, overflow_checks, ldvars>>

Api(budget) ==
    \/ Push(budget)
    \/ Pop(budget)
    \/ IConst(budget)
    \/ AConstNull(budget)
    \/ IAdd(budget)
    \/ PrintTop(budget)

\* The VM and its handlers, called directly (as test_basic_math does).
Next == Api(MaxCalls)

Spec == Init /\ [][Next]_vars

\* A few direct calls, then one execute call.
NextExec ==
    \/ Api(MaxPrelude)
    \/ Execute
    \/ ExecuteStep
    \/ ExecuteReturn

SpecExec == Init /\ [][NextExec]_vars

\* One execute call on a new VM.
NextRun ==
    \/ Execute
    \/ ExecuteStep
    \/ ExecuteReturn

\* execute is a plain loop of one thread: once called it keeps running.
SpecExecLive ==
    Init /\ [][NextRun]_vars /\ WF_vars(ExecuteStep) /\ WF_vars(ExecuteReturn)

(***************************************************************************)
(* ClassFileHeader::from_reader, src/src/loader.rs:565-589: one step per   *)
(* field of the struct literal, in its order, then the two checks.  A      *)
(* failed read returns through `?`; a panic unwinds.                       *)
(***************************************************************************)
\* The read r filled the header to h: go on with phase nxt, or end the load.
Advance(r, h, nxt) ==
    /\ header' = IF r.ok THEN h ELSE header
    /\ rpos' = IF r.ok THEN r.pos ELSE rpos
    /\ phase' = IF r.ok THEN nxt ELSE "failed"
    /\ loaded' = IF r.ok THEN loaded ELSE LoadFailure(r.err)
    /\ UNCHANGED <<file, desc, rsvars, vmvars, exvars, overflow_checks>>

ReadMagic ==
    /\ phase = "magic"
    /\ LET r == read_u32(file, rpos)
       IN  Advance(r, [header EXCEPT !.magic = r.val], "version_minor")

ReadVersionMinor ==
    /\ phase = "version_minor"
    /\ LET r == read_u16(file, rpos)
       IN  Advance(r, [header EXCEPT !.version_minor = r.val], "version_major")

ReadVersionMajor ==
    /\ phase = "version_major"
    /\ LET r == read_u16(file, rpos)
       IN  Advance(r, [header EXCEPT !.version_major = r.val], "constant_pool")

ReadConstantPool ==
    /\ phase = "constant_pool"
    /\ LET r == PoolFromReader(file, rpos, overflow_checks)
       IN  Advance(r, [header EXCEPT
                         !.constant_pool_count = r.val.constant_pool_count,
                         !.constant_pool = r.val.constant_pool],
                   "access_flags")

ReadAccessFlags ==
    /\ phase = "access_flags"
    /\ LET r == AccessFlagsFromReader(file, rpos, FALSE)
       IN  Advance(r, [header EXCEPT !.access_flags = r.val], "this_class")

ReadThisClass ==
    /\ phase = "this_class"
    /\ LET r == read_u16(file, rpos)
       IN  Advance(r, [header EXCEPT !.this_class = r.val], "super_class")

ReadSuperClass ==
    /\ phase = "super_class"
    /\ LET r == read_u16(file, rpos)
       IN  Advance(r, [header EXCEPT !.super_class = r.val], "interfaces")

ReadInterfaces ==
    /\ phase = "interfaces"
    /\ LET r == InterfacesFromReader(file, rpos)
       IN  Advance(r, [header EXCEPT !.interfaces = r.val], "fields")

ReadFields ==
    /\ phase = "fields"
    /\ LET r == FieldsFromReader(file, rpos)
       IN  Advance(r, [header EXCEPT !.fields = r.val], "methods")

ReadMethods ==
    /\ phase = "methods"
    /\ LET r == MethodsFromReader(file, rpos)
       IN  Advance(r, [header EXCEPT !.methods = r.val], "attributes")

ReadAttributes ==
    /\ phase = "attributes"
    /\ LET r == AttributesFromReader(file, rpos)
       IN  Advance(r, [header EXCEPT !.attributes = r.val], "validate")

\* The checks after the struct is built, src/src/loader.rs:579-588.
Validate ==
    /\ phase = "validate"
    /\ loaded' =
         IF header.magic # Magic THEN MagicMismatch(header.magic)
         ELSE IF header.version_major < 51 \/ header.version_major > 60
              THEN VersionUnsupported(header.version_major,
                                      header.version_minor)
              ELSE HeaderOk
    /\ phase' = IF loaded'.kind = "Header" THEN "header" ELSE "failed"
    /\ UNCHANGED <<file, desc, rpos, header, rsvars, vmvars, exvars,
                   overflow_checks>>

(***************************************************************************)
(* Class::from_header, src/src/loader.rs:707-718: one step per statement.  *)
(***************************************************************************)
\* The resolver answered r for the local named field: go on with phase
\* nxt, or end the load with its error.
Resolve(r, field, nxt) ==
    /\ lookups' = lookups \o r.keys
    /\ locals' = IF r.ok THEN [locals EXCEPT ![field] = r.val] ELSE locals
    /\ phase' = IF r.ok THEN nxt ELSE "failed"
    /\ resolved' = IF r.ok THEN resolved ELSE r.err
    /\ UNCHANGED <<file, desc, rpos, header, loaded, class, vmvars, exvars,
                   overflow_checks>>

ResolveSourceFile ==
    /\ phase = "header"
    /\ Resolve(get_source_file(header.constant_pool, header.attributes,
                               overflow_checks),
               "source_file_name", "get_class_name")

ResolveClassName ==
    /\ phase = "get_class_name"
    /\ Resolve(get_class_name(header.constant_pool, header.this_class,
                              overflow_checks),
               "class_name", "get_methods")

\* get_methods answered r: the Class is returned, or the error.
Build(r) ==
    /\ lookups' = lookups \o r.keys
    /\ phase' = IF r.ok THEN "class" ELSE "failed"
    /\ resolved' = IF r.ok THEN ClassOk ELSE r.err
    /\ class' = IF r.ok
                THEN [class_name |-> locals.class_name,
                      source_file_name |-> locals.source_file_name,
                      methods |-> r.val]
                ELSE class
    /\ UNCHANGED <<file, desc, rpos, header, loaded, locals, vmvars, exvars,
                   overflow_checks>>

ResolveMethods ==
    /\ phase = "get_methods"
    /\ Build(get_methods(header.constant_pool, header.methods,
                         overflow_checks))

\* Loader::load_from_reader, src/src/loader.rs:735-738:
\* ClassFileHeader::from_reader, then Class::from_header.
NextLoad ==
    \/ ReadMagic
    \/ ReadVersionMinor
    \/ ReadVersionMajor
    \/ ReadConstantPool
    \/ ReadAccessFlags
    \/ ReadThisClass
    \/ ReadSuperClass
    \/ ReadInterfaces
    \/ ReadFields
    \/ ReadMethods
    \/ ReadAttributes
    \/ Validate
    \/ ResolveSourceFile
    \/ ResolveClassName
    \/ ResolveMethods

SpecLoad == InitLoad /\ [][NextLoad]_vars

(***************************************************************************)
(* Properties of the operand stack and of the handlers (Spec).             *)
(***************************************************************************)
\* The slots of the VM below its top-of-stack index.
Live(v) == SubSeq(v.interop_stack, 1, v.interop_stack_ptr)

\* C1: after any sequence of push and pop calls from VM::new the index
\* satisfies 0 <= index <= storage length (the recorded size is that
\* length), and the 'interop stack ptr violation' branch of push, like the
\* Vec's own bounds check, is never reached.
C1_IndexWithinStorage ==
    /\ 0 <= vm.interop_stack_ptr
    /\ vm.interop_stack_ptr <= Len(vm.interop_stack)
    /\ vm.interop_stack_size = Len(vm.interop_stack)
    /\ panic \notin {"StackPtrViolation", "IndexOutOfBounds"}

\* A push below the storage length (an overwrite in place) has happened.
C1_Witness ==
    /\ last.op = "push"
    /\ last.vm.interop_stack_ptr < last.vm.interop_stack_size
    /\ vm.interop_stack_ptr = last.vm.interop_stack_ptr + 1
    /\ vm.interop_stack_size = last.vm.interop_stack_size

\* C2: the storage with its index behaves as a plain LIFO sequence: every
\* call returns what the reference stack returns and faults when it
\* faults, and the slots below the index are the reference stack.
C2_RefinesLifo ==
    /\ panic = last.apanic
    /\ last.ret = last.aret
    /\ Live(vm) = lifo

\* Four calls on a storage that never grew beyond one slot: push, pop, a
\* push that overwrites the stale slot, and a pop that returns the new value.
C2_Witness ==
    /\ nCalls = 4
    /\ last.op = "pop"
    /\ panic = "none"
    /\ vm.interop_stack_size = 1
    /\ last.ret = VNull
    /\ last.ret = last.aret

\* C3: a pop at index 0 faults with the stack underflow, returns no value
\* (no default, no Null, no stale slot) and leaves the index at 0.
C3_PopEmptyUnderflows ==
    (last.op \in {"pop", "print"} /\ last.vm.interop_stack_ptr = 0)
        => /\ panic = "StackUnderflow"
           /\ last.ret = NoValue
           /\ vm.interop_stack_ptr = 0
           /\ vm = last.vm

\* A pop on a stack emptied by earlier pops: a stale value is in storage.
C3_Witness ==
    /\ last.op = "pop"
    /\ last.vm.interop_stack_ptr = 0
    /\ last.vm.interop_stack_size > 0
    /\ panic = "StackUnderflow"

\* The two values on top of the VM before the last call are Ints.
TwoIntsOnTop(v) ==
    /\ v.interop_stack_ptr >= 2
    /\ IsInt(v.interop_stack[v.interop_stack_ptr])
    /\ IsInt(v.interop_stack[v.interop_stack_ptr - 1])

\* C4: for every pair of Int values a and b on top, iadd returns having
\* replaced them by Int(a + b), one slot lower, the slots below untouched.
\* The sum is read in two's complement, the most the claim can mean.
C4_AddPushesSum ==
    (last.op = "iadd" /\ TwoIntsOnTop(last.vm))
        => LET n == last.vm.interop_stack_ptr
               a == last.vm.interop_stack[n].v
               b == last.vm.interop_stack[n - 1].v
           IN  /\ panic = "none"
               /\ vm.interop_stack_ptr = n - 1
               /\ vm.interop_stack[n - 1] =
                      VInt(IF Overflows(a, b) THEN WrapAdd(a, b) ELSE a + b)
               /\ SubSeq(vm.interop_stack, 1, n - 2) =
                      SubSeq(last.vm.interop_stack, 1, n - 2)

(***************************************************************************)
(* Properties of execute (SpecExec, SpecExecLive).                         *)
(***************************************************************************)
\* The indices 1..n in order.
Upto(n) == [i \in 1..n |-> i]

\* C5: at a byte decode does not recognise, execute returns
\* UnimplementedOpcode with exactly that byte, that instruction changes
\* nothing of the operand stack, and no later byte is dispatched.
C5_UnknownByteStops ==
    /\ [][(status = "Running" /\ pc <= Len(code) /\ ~decode(code[pc]).ok)
            => (/\ status' = "Faulted"
                /\ result' = UnimplementedOpcode(code[pc])
                /\ vm' = vm
                /\ trace' = Append(trace, pc))]_vars
    /\ [][(status = "Faulted") => (trace' = trace /\ vm' = vm)]_vars
    /\ [](result.kind = "UnimplementedOpcode"
            => /\ status = "Faulted"
               /\ result.byte = code[pc]
               /\ trace = Upto(pc)
               /\ vm = pre)

\* 0xFF after one instruction that pushed: the push is kept.
C5_Witness ==
    /\ status = "Faulted"
    /\ result = UnimplementedOpcode(255)
    /\ pc = 2
    /\ vm.interop_stack_ptr = 1
    /\ Len(code) = 2

\* C6: when a handler faults during execute, the operand stack is exactly
\* what it was just before that instruction began.
C6_FaultLeavesStack ==
    (status = "Faulted" /\ panic # "none") => vm = pre

\* C7: execute terminates; it hands the bytes to decode one at a time in
\* increasing index order without skipping, and ends either Completed with
\* every byte dispatched and none faulting, or Faulted at the first
\* faulting byte with no later byte dispatched.
C7_ExecuteTerminates ==
    /\ (status = "Running") ~> (status \in {"Completed", "Faulted"})
    /\ [][trace' # trace
            => (\/ trace' = <<>>
                \/ /\ status = "Running"
                   /\ trace' = Append(trace, Len(trace) + 1)
                   /\ Len(trace') <= Len(code))]_vars
    /\ [][(status \in {"Completed", "Faulted"})
            => (trace' = trace /\ status' = status)]_vars
    /\ [](status = "Completed"
            => /\ trace = Upto(Len(code))
               /\ result = OkResult
               /\ panic = "none"
               /\ \A i \in 1..Len(code) : decode(code[i]).ok)
    /\ [](status = "Faulted"
            => /\ trace # <<>>
               /\ trace = Upto(Len(trace))
               /\ Len(trace) <= Len(code)
               /\ (panic # "none" \/ result.kind = "UnimplementedOpcode")
               /\ \A i \in 1..(Len(trace) - 1) : decode(code[i]).ok)

\* A code sequence of two bytes ran to completion, both handlers pushing.
C7_Witness ==
    /\ status = "Completed"
    /\ trace = <<1, 2>>
    /\ vm.interop_stack_ptr = 2
    /\ result = OkResult

(***************************************************************************)
(* Properties of the loader (SpecLoad).                                    *)
(***************************************************************************)
IsWide(t) == t.kind \in {"Long", "Double"}

\* The 1-based pool index of the j-th entry of the byte stream: every Long
\* or Double before it takes two.
IndexOfEntry(entries, j) ==
    j + Cardinality({i \in 1..(j - 1) : IsWide(entries[i])})

\* Some(tag), what get_constant_value answers for a slot that holds tag.
Some(t) == [some |-> TRUE, tag |-> t, panic |-> "none"]

\* C8: where a Long or Double sits at pool index k, index k+1 resolves to
\* the placeholder and index k+2 to the entry that follows the Long or
\* Double in the byte stream; for every k and any number of such entries.
C8_WideEntryTakesTwoSlots ==
    LET pool == header.constant_pool
        get(k) == get_constant_value(pool, k, overflow_checks)
    IN  /\ \A k \in 1..Len(pool) :
              IsWide(pool[k]) => get(k + 1) = Some(Dummy)
        /\ \A j \in 1..Len(desc.entries) :
              LET k == IndexOfEntry(desc.entries, j)
              IN  (IsWide(desc.entries[j]) /\ k <= Len(pool))
                     => /\ get(k) = Some(desc.entries[j])
                        /\ get(k + 1) = Some(Dummy)
                        /\ (j < Len(desc.entries) /\ k + 2 <= Len(pool))
                              => get(k + 2) = Some(desc.entries[j + 1])

\* A pool of a Long, a Double and a Utf8 was decoded into five slots.
C8_Witness ==
    /\ phase = "access_flags"
    /\ Len(header.constant_pool) = 5
    /\ header.constant_pool[1].kind = "Long"
    /\ header.constant_pool[2] = Dummy
    /\ header.constant_pool[3].kind = "Double"
    /\ header.constant_pool[4] = Dummy
    /\ header.constant_pool[5] = Utf8(TextT)

\* C9: a load of a file whose first four bytes are not the magic ends in
\* MagicMismatch carrying those four bytes, whatever follows them.
C9_BadMagicIsMagicMismatch ==
    (loaded.kind # "none" /\ Len(file) >= 4 /\ SubSeq(file, 1, 4) # Magic)
        => loaded = MagicMismatch(SubSeq(file, 1, 4))

\* The file holds the table its description lists: the declared count is
\* the number of slots plus one and every tag byte is assigned.
PoolAsDeclared(d) ==
    /\ \A i \in 1..Len(d.entries) : d.entries[i].kind # "Unexpected"
    /\ d.count = IndexOfEntry(d.entries, Len(d.entries) + 1)

\* C10: the class's flag word is decoded in the class context and the flag
\* word of every method in the method context (0x0020 Synchronized, 0x0040
\* Bridge, 0x0080 Varargs).
C10_MethodFlagsInMethodContext ==
    PoolAsDeclared(desc)
        => /\ phase \in {"this_class", "validate", "header"}
                => header.access_flags = FlagsOfWord(desc.flags, FALSE)
           /\ \A i \in 1..Len(header.methods) :
                header.methods[i].access_flags
                    = FlagsOfWord(desc.methods[i].flags, TRUE)

(***************************************************************************)
(* Properties of the resolver (SpecLoad).                                  *)
(***************************************************************************)
\* The statements of Class::from_header that have run: the texts they
\* resolve are never empty.
SourceFileActed == loaded = HeaderOk /\ phase # "header"
ClassNameActed == locals.source_file_name # <<>> /\ phase # "get_class_name"
MethodsActed == locals.class_name # <<>> /\ phase # "get_methods"

\* C11: the lookup of this_class is 1-based: for index 0 and for an index
\* beyond the last slot the load ends in ConstantPoolMissing carrying that
\* index, and in nothing else; for an index from 1 to the number of slots
\* the lookup answers the entry of slot index - 1.
C11_ResolveIsOneBased ==
    LET pool == header.constant_pool
        key == header.this_class
    IN  ClassNameActed
          => /\ (key = 0 \/ key > Len(pool))
                   => resolved = ConstantPoolMissing(key)
             /\ key \in 1..Len(pool)
                   => get_constant_value(pool, key, overflow_checks)
                         = Some(pool[key])

\* C12: a Utf8 lookup of an index that is in range but holds an entry of
\* another kind (the placeholder of a Long included) ends the load in
\* ConstantPoolTypeMismatch, and a load succeeds only when every method
\* name is a Utf8 entry.
C12_NonUtf8IsTypeMismatch ==
    LET pool == header.constant_pool
    IN  /\ (/\ MethodsActed
            /\ Len(header.methods) >= 1
            /\ header.methods[1].name_index \in 1..Len(pool)
            /\ pool[header.methods[1].name_index].kind # "Utf8")
              => resolved.kind = "ConstantPoolTypeMismatch"
        /\ resolved = ClassOk
              => \A i \in 1..Len(header.methods) :
                    /\ header.methods[i].name_index \in 1..Len(pool)
                    /\ pool[header.methods[i].name_index].kind = "Utf8"

\* The entry that the file's description puts at pool index k; none at
\* index 0, at the second slot of a Long or Double and beyond the last.
EntryAt(entries, k) ==
    IF \E j \in 1..Len(entries) : IndexOfEntry(entries, j) = k
    THEN entries[CHOOSE j \in 1..Len(entries) : IndexOfEntry(entries, j) = k]
    ELSE NoTag

\* The text at pool index k of the description, <<>> where there is none.
NameAt(d, k) ==
    IF EntryAt(d.entries, k).kind = "Utf8" THEN EntryAt(d.entries, k).text
    ELSE <<>>

\* The class-level attributes of the description that are named "SourceFile".
Matches(d) ==
    {i \in 1..Len(d.attributes) :
        NameAt(d, d.attributes[i].attribute_name_index) = TextSourceFile}

\* The attributes a scan for "SourceFile" goes through: up to the first
\* match, or all of them.
Scanned(d) ==
    IF Matches(d) = {} THEN Len(d.attributes)
    ELSE CHOOSE i \in Matches(d) : \A j \in Matches(d) : i <= j

\* Every scanned attribute has a name and an info its name can be read from.
ScanIsClean(d) ==
    \A j \in 1..Scanned(d) :
        LET name == NameAt(d, d.attributes[j].attribute_name_index)
        IN  /\ name # <<>>
            /\ name # TextCode
            /\ name \in {TextSourceFile, TextConstantValue}
                  => Len(d.attributes[j].info) >= 2

C14_StructuralBeforeSemantic ==
    /\ lookups # <<>> => loaded = HeaderOk
    /\ (loaded.kind = EOF \/ resolved.kind = EOF) => lookups = <<>>
    /\ (loaded.kind \notin {"none", "Header"}
          \/ resolved.kind \notin {"none", "Class"}) => class = NoClass

\* The load ended in the decode of the pool: the reader still stands
\* behind the version, where a later phase never leaves it.
PoolDecodeFailed == phase = "failed" /\ rpos = 8

\* C15: a decoded pool holds exactly count - 1 slots, whatever its last
\* entry is, and none for a count of 1 or 0; the decode of a pool of count
\* 1 or 0 reads no entry, so it cannot fail.  (The reader is past the ten
\* bytes before the first entry only when the pool was decoded.)
C15_PoolHoldsCountMinusOne ==
    /\ rpos >= 10
          => Len(header.constant_pool)
               = IF header.constant_pool_count = 0 THEN 0
                 ELSE header.constant_pool_count - 1
    /\ (Len(file) >= 10 /\ file[9] * 256 + file[10] <= 1) => ~PoolDecodeFailed

\* The methods of the description that have the name n.
Named(d, n) ==
    {i \in 1..Len(d.methods) : NameAt(d, d.methods[i].name_index) = n}

\* C16: the Class of a successful load maps exactly the names of the
\* method table, each to the instruction bytes of the last method of that
\* name in table order (no bytes when that method has no Code attribute).
C16_LastMethodOfNameWins ==
    LET names == {NameAt(desc, desc.methods[i].name_index) :
                     i \in 1..Len(desc.methods)}
        latest(n) == CHOOSE i \in Named(desc, n) : \A j \in Named(desc, n) : j <= i
    IN  (resolved = ClassOk /\ PoolAsDeclared(desc))
          => /\ DOMAIN class.methods = names
             /\ \A n \in names :
                   class.methods[n] = Method(n, desc.methods[latest(n)].body)

\* `main` with code, then `main` without a Code attribute: one entry, with
\* no instruction bytes.
C16_Witness ==
    /\ resolved = ClassOk
    /\ desc.methods
         = <<MethodDesc(9, 5, 6, <<CodeAttributeOf(<<5, 5, 96>>)>>,
                        <<5, 5, 96>>),
             MethodDesc(1025, 5, 6, <<>>, <<>>)>>
    /\ DOMAIN class.methods = {TextMain}
    /\ class.methods[TextMain] = Method(TextMain, <<>>)

(***************************************************************************)
(* Properties of the conversion opcodes (SpecExec).                        *)
(***************************************************************************)
\* 0x85 i2l, 0x86 i2f, 0x87 i2d, 0x91 i2b, 0x92 i2c, 0x93 i2s
Conversions == {133, 134, 135, 145, 146, 147}

\* C17: the decoder knows every conversion byte, and the step of execute on
\* one leaves the VM (top index and contents) as it was, faults nothing and
\* moves on to the next byte, whatever the stack holds.
C17_ConversionChangesNothing ==
    /\ [](\A b \in Conversions : decode(b).ok)
    /\ [][(status = "Running" /\ pc <= Len(code) /\ code[pc] \in Conversions)
             => (/\ vm' = vm
                 /\ lifo' = lifo
                 /\ panic' = "none"
                 /\ status' = "Running"
                 /\ pc' = pc + 1
                 /\ result' = result)]_vars

\* i2b was executed on the empty stack and the loop is at the next byte.
C17_Witness ==
    /\ status = "Running"
    /\ Len(code) = 2
    /\ code[1] = 145
    /\ trace = <<1>>
    /\ pc = 2
    /\ vm.interop_stack_ptr = 0
    /\ vm = pre

=============================================================================
